---- MODULE Spec2Model ----
(***************************************************************************)
(* Two-green-day candle filter.                                            *)
(*                                                                         *)
(* Spec:     the Binance strategy (src/src/two_green_filter_binance.py) as *)
(*           driven by its script entry point, by a bounded run and by    *)
(*           the bot's scheduled scan.                                     *)
(* SpecCcxt: the ccxt variant of the strategy (src/2_green_filter.py).     *)
(* SpecDb:   the subscriber store (src/database.py, src/src/database.py)   *)
(*           and the bot's start-up (src/crypto_telegram_bot.py).          *)
(* SpecBot:  two scheduled_scan jobs of the bot, interleaved at their      *)
(*           await points.                                                 *)
(*                                                                         *)
(* Time is counted in half days: an even instant 2*d is 00:00 of day d,    *)
(* an odd instant 2*d+1 is noon of day d.  Prices and volumes are          *)
(* integers; a mean is kept as the exact fraction sum/n, a risk            *)
(* percentage as the exact fraction num/den or an IEEE special value.      *)
(***************************************************************************)
EXTENDS Integers, Sequences, FiniteSets, TLC

VARIABLES
    now,            \* datetime.now() of this execution, in half days
    pc,             \* position of the running entry point
    caller,         \* who called the running fetch_data: "scan" or "filter"
    data,           \* self.data: dict symbol -> DataFrame, in insertion order
    matching_pairs, \* self.matching_pairs, also the value filter returns
    symbols,        \* fetch_data's local list `symbols`
    idx,            \* position of the for loop over `symbols` (1-based)
    since,          \* fetch_data's local `since` (startTime of the requests)
    listing,        \* outcome of this fetch_data run's exchangeInfo request
    fetched,        \* outcome of this fetch_data run's klines request, per symbol
    limit_pairs,    \* fetch_data's argument limit_pairs (-1 for None)
    all_symbols,    \* fetch_data's local list `all_symbols`
    delayed,        \* the 50 ms sleep has run since the last klines request
    info,           \* payload of this fetch_data run's listing request
    days_to_fetch,  \* self.days_to_fetch of the ccxt variant (0 in the Binance one)
    db_module,      \* the database module in use: src/database.py or src/src/database.py
    subscribers,    \* rows of the subscribers table, in rowid (chat_id) order
    returned,       \* the last call on the store or of setup_jobs, and its outcome
    setup,          \* outcome of setup_jobs in CryptoSignalBot.__init__
    jobs,           \* data of the jobs registered with job_queue.run_daily
    crypto_strategy,\* self.crypto_strategy: the job whose scan created the instance (0: None)
    jpc,            \* per job: the await at which its scheduled_scan is suspended
    job_data,       \* per job: context.job.data
    used,           \* per job: the instance its scan ran fetch_data and filter on
    job_since,      \* per job: startTime its scan's fetch_data requested
    result,         \* per job: matching_pairs of its scan
    message,        \* per job: the results message its scan built
    notified,       \* per job: update_last_notification was called in this scan
    delivered,      \* per job: the sends of this scan that succeeded
    failures,       \* per job: the sends of this scan that raised
    log             \* per job: the sends of this scan whose failure was logged

strategyVars ==
    <<now, pc, caller, data, matching_pairs, symbols, idx, since, listing, fetched,
      limit_pairs, all_symbols, delayed, info, days_to_fetch>>

dbVars == <<db_module, subscribers, returned, setup, jobs>>

botVars ==
    <<crypto_strategy, jpc, job_data, used, job_since, result, message, notified,
      delivered, failures, log>>

\* Variables of the other components.
otherVars == <<dbVars, botVars>>

vars == <<strategyVars, otherVars>>

-----------------------------------------------------------------------------
(* Program constants *)

OneDay == 2
LookbackDays == 30
Window == 28
\* Mutant: as many candles as the moving average needs are enough.
MinCandlesWindow == Window
MinCandles == 30
KlinesLimit == 1000
QuoteCurrency == "USDT"

\* A float that holds a mean: NaN, or the exact fraction sum/n.
NaN == [nan |-> TRUE, sum |-> 0, n |-> 1]
IsNa(m) == m.nan

-----------------------------------------------------------------------------
(* Bounds of the model *)

\* The day on which the execution runs.
Today == 40
\* Symbols listed for fewer days than the window are tried from 28 days up
\* to this many.
MaxShortHistory == 30
\* Caps passed to fetch_data by a bounded run: 0..MaxLimit.
MaxLimit == 3
\* days_to_fetch of the ccxt variant: its default and 28..MaxDaysToFetch.
MaxDaysToFetch == 29
\* Chat ids that use the store: 1..MaxChats.
MaxChats == 2
\* A scan finds 0..MaxMatches matching pairs.
MaxMatches == 11

-----------------------------------------------------------------------------
(* The exchange: what the two REST endpoints can answer *)

Item(s, q, st) == [symbol |-> s, quoteAsset |-> q, status |-> st]

\* Payloads of /api/v3/exchangeInfo the model draws from.
ExchangeInfos ==
    { << Item("A", "USDT", "TRADING"), Item("B", "USDT", "TRADING"),
         Item("C", "USDT", "TRADING") >>,
      << Item("A", "USDT", "TRADING"), Item("ABTC", "BTC", "TRADING"),
         Item("B", "USDT", "BREAK"), Item("C", "USDT", "TRADING") >> }

AllSymbols == {"A", "B", "C", "ABTC"}

Candle(o, h, l, c, v) == [Open |-> o, High |-> h, Low |-> l, Close |-> c, Volume |-> v]

Flat == Candle(100, 100, 100, 100, 1)

\* The last three daily bars of a symbol (third-last, second-last, last);
\* every earlier bar is Flat.
Shapes ==
    { \* two green bars, close 105 above MA28 = 100, lows 98 and 99
      [name |-> "Ex", c3 |-> Candle(96, 96, 94, 94, 1),
       c2 |-> Candle(99, 101, 98, 101, 3), c1 |-> Candle(101, 105, 99, 105, 500000)],
      \* last bar closes where it opened
      [name |-> "LastDoji", c3 |-> Flat,
       c2 |-> Candle(99, 101, 98, 101, 3), c1 |-> Candle(105, 105, 105, 105, 20)],
      \* second-last bar closes where it opened
      [name |-> "PrevDoji", c3 |-> Flat,
       c2 |-> Candle(101, 101, 101, 101, 3), c1 |-> Candle(101, 105, 99, 105, 20)],
      \* two green bars, last close equal to MA28
      [name |-> "EqMA", c3 |-> Flat,
       c2 |-> Candle(99, 100, 99, 100, 3), c1 |-> Candle(99, 100, 99, 100, 20)],
      \* two green bars above MA28, the last one with a low of zero
      [name |-> "ZeroLow", c3 |-> Flat,
       c2 |-> Candle(99, 101, 98, 101, 3), c1 |-> Candle(101, 105, 0, 105, 7)] }

ShapeOf(n) == CHOOSE s \in Shapes : s.name = n

\* What the exchange holds for a symbol when asked: the shape of its last
\* bars and the number of daily bars since its listing.
Markets ==
    { [shape |-> s, history |-> 1000] : s \in Shapes }
    \cup { [shape |-> ShapeOf("Ex"), history |-> h] : h \in 28..MaxShortHistory }

Min(a, b) == IF a <= b THEN a ELSE b
Max(a, b) == IF a >= b THEN a ELSE b

\* Days whose bar opened at or after startTime and has opened by `t`.
FirstDayFrom(startTime) == (startTime + OneDay - 1) \div OneDay
CurrentDay(t) == t \div OneDay

\* Answer of /api/v3/klines?symbol&interval=1d&startTime&limit (no endTime):
\* the bars with openTime >= startTime in ascending order, at most `limit`,
\* up to and including the bar that is open at time t.
Klines(market, startTime, limit, t) ==
    LET shape == market.shape
        last  == CurrentDay(t)
        first == Max(FirstDayFrom(startTime), last - market.history + 1)
        n     == Min(Max(last - first + 1, 0), limit)
        bar(d) == IF d = last THEN shape.c1
                  ELSE IF d = last - 1 THEN shape.c2
                  ELSE IF d = last - 2 THEN shape.c3
                  ELSE Flat
    IN  [i \in 1..n |-> [timestamp |-> OneDay * (first + i - 1)] @@ bar(first + i - 1)]

\* Instants at which an execution may start: noon of Today.
NowValues == {OneDay * Today + 1}

-----------------------------------------------------------------------------
(* CryptoTradingStrategy *)

\* fetch_all_pairs, the try branch: symbols with the quote asset and status.
FilterSymbols(payload) ==
    LET keep(item) == item.quoteAsset = QuoteCurrency /\ item.status = "TRADING"
        kept == SelectSeq(payload, keep)
    IN  [i \in 1..Len(kept) |-> kept[i].symbol]

\* fetch_data: symbols = all_symbols[:limit_pairs] if limit_pairs else all_symbols
\* (limit_pairs is -1 for None).
LimitPairs(listed, limit) ==
    IF limit = -1 \/ limit = 0 THEN listed
    ELSE SubSeq(listed, 1, Min(limit, Len(listed)))

\* fetch_data: since = (now - 1 day) - 30 days.
Since(t) ==
    LET yesterday == t - OneDay
        interval  == yesterday - LookbackDays * OneDay
    IN  interval

RECURSIVE SumClose(_, _, _)
SumClose(rows, lo, hi) ==
    IF lo > hi THEN 0 ELSE rows[hi].Close + SumClose(rows, lo, hi - 1)

\* df['Close'].rolling(window=28).mean() at row i: NaN until 28 rows exist.
RollingMean(rows, i) ==
    IF i < Window THEN NaN
    ELSE [nan |-> FALSE, sum |-> SumClose(rows, i - Window + 1, i), n |-> Window]

\* Mutant: a candle that closes where it opened counts as green.
IsGreenOrFlat(row) == row.Close >= row.Open

\* df['is_green'] = df['Close'] > df['Open']
IsGreen(row) == row.Close > row.Open

\* fetch_data: the DataFrame built from a non-empty klines answer.
BuildFrame(klines) ==
    [i \in 1..Len(klines) |->
        klines[i] @@ [is_green |-> IsGreen(klines[i]), MA28 |-> RollingMean(klines, i)]]

HasKey(d, k) == \E i \in 1..Len(d) : d[i].symbol = k

\* self.data[symbol] = df on a dict that keeps insertion order.
DictSet(d, k, df) ==
    IF HasKey(d, k)
    THEN [i \in 1..Len(d) |-> IF d[i].symbol = k THEN [symbol |-> k, df |-> df] ELSE d[i]]
    ELSE Append(d, [symbol |-> k, df |-> df])

\* x > mean, false when the mean is NaN.
GtMean(x, m) == ~IsNa(m) /\ x * m.n > m.sum

\* (close / stop_loss - 1) * 100 on numpy floats: division by zero gives
\* inf, -inf or nan instead of raising.
RiskPct(close, stop_loss) ==
    IF stop_loss # 0 THEN [kind |-> "num", num |-> (close - stop_loss) * 100, den |-> stop_loss]
    ELSE IF close > 0 THEN [kind |-> "inf", num |-> 0, den |-> 0]
    ELSE IF close < 0 THEN [kind |-> "-inf", num |-> 0, den |-> 0]
    ELSE [kind |-> "nan", num |-> 0, den |-> 0]

\* Mutant: only the MA28 test, without the length test.
SkippedNoLength(df) == IsNa(df[Len(df)].MA28)

\* filter_pairs_with_signals: `continue` for a frame that is too short or
\* whose MA28 is not established at the last row.
Skipped(df) == Len(df) < MinCandles \/ IsNa(df[Len(df)].MA28)

\* filter_pairs_with_signals: the entry conditions on the last two candles.
EntrySignal(df) ==
    /\ ~Skipped(df)
    /\ Len(df) >= 2
    /\ LET last_candle == df[Len(df)]
           second_last_candle == df[Len(df) - 1]
       IN  /\ last_candle.is_green
           /\ second_last_candle.is_green
           /\ GtMean(last_candle.Close, last_candle.MA28)

\* Mutant: the low of the last candle alone.
StopLossLastOnly(df) == df[Len(df)].Low

\* filter_pairs_with_signals: stop_loss = min(last low, second-last low).
StopLoss(df) == Min(df[Len(df)].Low, df[Len(df) - 1].Low)

\* filter_pairs_with_signals: the dict appended for a matching symbol.
MatchOf(symbol, df) ==
    LET last_candle == df[Len(df)]
        stop_loss   == StopLoss(df)
    IN  [symbol     |-> symbol,
         last_close |-> last_candle.Close,
         last_date  |-> last_candle.timestamp,
         ma28       |-> last_candle.MA28,
         stop_loss  |-> stop_loss,
         risk_pct   |-> RiskPct(last_candle.Close, stop_loss),
         volume     |-> last_candle.Volume]

\* Mutant: m goes in front of the entries of equal volume.
RECURSIVE InsertBeforeTies(_, _)
InsertBeforeTies(sorted, m) ==
    IF sorted = <<>> THEN <<m>>
    ELSE IF sorted[1].volume > m.volume THEN <<sorted[1]>> \o InsertBeforeTies(Tail(sorted), m)
    ELSE <<m>> \o sorted

\* Insert m behind every entry whose volume is at least m's.
RECURSIVE InsertDesc(_, _)
InsertDesc(sorted, m) ==
    IF sorted = <<>> THEN <<m>>
    ELSE IF sorted[1].volume >= m.volume THEN <<sorted[1]>> \o InsertDesc(Tail(sorted), m)
    ELSE <<m>> \o sorted

\* Mutant: the list is left in encounter order.
Unsorted(pairs) == pairs

\* sorted(matching_pairs, key=volume, reverse=True): stable, descending.
RECURSIVE SortedByVolume(_)
SortedByVolume(pairs) ==
    IF pairs = <<>> THEN <<>>
    ELSE InsertDesc(SortedByVolume(SubSeq(pairs, 1, Len(pairs) - 1)), pairs[Len(pairs)])

\* filter_pairs_with_signals after its fetch: the loop over self.data.items()
\* and the sort.
FilterPairs(d) ==
    LET hit(e) == EntrySignal(e.df)
        hits == SelectSeq(d, hit)
    IN  SortedByVolume([i \in 1..Len(hits) |-> MatchOf(hits[i].symbol, hits[i].df)])

\* The exchange's answers to the requests the program can send, tabulated.
StartTimes == { Since(t) : t \in NowValues }
KlinesAnswers ==
    [m \in Markets |-> [st \in StartTimes |-> [t \in NowValues |->
        Klines(m, st, KlinesLimit, t)]]]

\* The DataFrame fetch_data builds from each of these answers, tabulated.
Frames ==
    [m \in Markets |-> [st \in StartTimes |-> [t \in NowValues |->
        BuildFrame(KlinesAnswers[m][st][t])]]]

\* Mutant: the delay is skipped when the request raised.
SleepsUnlessError(outcome) == outcome # "error"

\* fetch_data: time.sleep(0.05) stands behind the try/except, so it runs
\* after a request whatever its outcome ("ok", "empty" or "error").
SleepsAfter(outcome) == outcome \in {"ok", "empty", "error"}

-----------------------------------------------------------------------------
(* The subscriber store: Database of src/database.py and src/src/database.py *)

ChatIds == 1..MaxChats
Usernames == {"u", "v"}
Modules == {"src/database.py", "src/src/database.py"}

\* init_db: the columns of the subscribers table the module creates.
Columns(mod) ==
    IF mod = "src/database.py"
    THEN {"chat_id", "username", "subscribed_at", "is_active", "last_notification"}
    ELSE {"chat_id", "username", "is_active", "last_notification"}

\* add_subscriber: the columns its INSERT OR REPLACE names (both modules).
InsertColumns == {"chat_id", "username", "subscribed_at", "is_active"}

\* INSERT OR REPLACE on the primary key chat_id: a row with the same key is
\* deleted, the new row is stored at its rowid (= chat_id) position.
InsertOrReplace(table, row) ==
    LET before(r) == r.chat_id < row.chat_id
        after(r)  == r.chat_id > row.chat_id
    IN  SelectSeq(table, before) \o <<row>> \o SelectSeq(table, after)

\* add_subscriber: sqlite raises when the statement names a column the
\* table lacks; the except clause logs it and returns False.
AddSubscriberOk(mod) == InsertColumns \subseteq Columns(mod)

AddSubscriberRows(table, mod, chat_id, username) ==
    IF AddSubscriberOk(mod)
    THEN InsertOrReplace(table, [chat_id |-> chat_id, username |-> username,
                                 is_active |-> TRUE, last_notification |-> FALSE])
    ELSE table

\* remove_subscriber: UPDATE ... SET is_active = 0 WHERE chat_id = ?.
RemoveSubscriberRows(table, chat_id) ==
    [i \in 1..Len(table) |->
        IF table[i].chat_id = chat_id
        THEN [table[i] EXCEPT !.is_active = FALSE]
        ELSE table[i]]

\* get_active_subscribers: SELECT chat_id, username ... WHERE is_active = 1,
\* as fetchall() returns it: one tuple of the selected columns per row.
GetActiveSubscribers(table) ==
    LET active(r) == r.is_active
        rows == SelectSeq(table, active)
    IN  [i \in 1..Len(rows) |-> <<rows[i].chat_id, rows[i].username>>]

DbFresh ==
    /\ subscribers = <<>>
    /\ returned = [op |-> "init_db", chat_id |-> 0, ok |-> TRUE]
    /\ setup = "none"
    /\ jobs = <<>>

-----------------------------------------------------------------------------
(* The bot: CryptoSignalBot of src/crypto_telegram_bot.py *)

\* setup_jobs: `chat_id, _, _, _, scan_days, notification_time = subscriber`.
UnpackArity == 6
\* setup_jobs: data={..., 'scan_days': scan_days or 30}.
DefaultScanDays == 30
\* scheduled_scan: matching_pairs[:10].
ListCap == 10

\* setup_jobs on the rows get_active_subscribers returned.  Unpacking a row
\* that has not exactly six values raises ValueError outside the try, which
\* ends setup_jobs; a row before it with a notification time (0: none) got
\* its job.
SetupJobs(rows) ==
    LET bad  == { i \in 1..Len(rows) : Len(rows[i]) # UnpackArity }
        stop == IF bad = {} THEN Len(rows) + 1
                ELSE CHOOSE i \in bad : \A k \in bad : i <= k
        timed(r) == r[6] # 0
        done == SelectSeq(SubSeq(rows, 1, stop - 1), timed)
    IN  [outcome |-> IF bad = {} THEN "done" ELSE "ValueError",
         jobs    |-> [i \in 1..Len(done) |->
                        [chat_id   |-> done[i][1],
                         scan_days |-> IF done[i][5] = 0 THEN DefaultScanDays
                                       ELSE done[i][5]]]]

\* The two scheduled_scan jobs; job j serves chat id j.
Jobs == {1, 2}
ScanDaysValues == {7, DefaultScanDays}
\* What a send_message call may raise.
Exceptions == {"TelegramError", "Exception"}

\* The ranked list a scan's filter_pairs_with_signals returns, reduced to the
\* identities of its n pairs.
RankedList(n) == [i \in 1..n |-> n + 1 - i]

NoMessage == [total |-> 0, entries |-> <<>>, more |-> <<>>]

\* Mutant: the remainder line is added from 10 matches on.
BuildMessageFromCap(matches) ==
    [total   |-> Len(matches),
     entries |-> [i \in 1..Min(Len(matches), ListCap) |->
                    [number |-> i, pair |-> matches[i]]],
     more    |-> IF Len(matches) >= ListCap THEN <<Len(matches) - ListCap>> ELSE <<>>]

\* scheduled_scan: the results message: the header with len(matching_pairs),
\* one numbered entry per pair of matching_pairs[:10], and the line
\* "...and {len - 10} more pairs." when len > 10.
BuildMessage(matches) ==
    [total   |-> Len(matches),
     entries |-> [i \in 1..Min(Len(matches), ListCap) |->
                    [number |-> i, pair |-> matches[i]]],
     more    |-> IF Len(matches) > ListCap THEN <<Len(matches) - ListCap>> ELSE <<>>]

\* scheduled_scan: where control goes when the send at `site` raises e.  In
\* the try body `except TelegramError` ends the scan, `except Exception`
\* goes on to send the error report; the report's own failure is swallowed
\* by the bare except.
Catch(site, e) ==
    IF site = "report" THEN "end"
    ELSE IF e = "TelegramError" THEN "end"
    ELSE IF e = "Exception" THEN "report"
    ELSE "raised"

\* scheduled_scan: both except clauses of the try call logger.error; the
\* bare except around the error report is `pass`.
Logs(site) == site # "report"

BotIdle ==
    /\ crypto_strategy = 0
    /\ jpc = [j \in Jobs |-> "idle"]
    /\ job_data = [j \in Jobs |-> [chat_id |-> j, scan_days |-> DefaultScanDays]]
    /\ used = [j \in Jobs |-> 0]
    /\ job_since = [j \in Jobs |-> 0]
    /\ result = [j \in Jobs |-> <<>>]
    /\ message = [j \in Jobs |-> NoMessage]
    /\ notified = [j \in Jobs |-> FALSE]
    /\ delivered = [j \in Jobs |-> {}]
    /\ failures = [j \in Jobs |-> {}]
    /\ log = [j \in Jobs |-> {}]

-----------------------------------------------------------------------------
(* State machine of the Binance strategy *)

NoFetch == [s \in AllSymbols |-> "none"]

StrategyIdle ==
    /\ pc = "idle"
    /\ caller = "none"
    /\ data = <<>>
    /\ matching_pairs = <<>>
    /\ symbols = <<>>
    /\ idx = 1
    /\ since = 0
    /\ listing = "none"
    /\ fetched = NoFetch
    /\ limit_pairs = -1
    /\ all_symbols = <<>>
    /\ delayed = TRUE
    /\ info = <<>>

Init ==
    /\ db_module = "src/database.py"
    /\ DbFresh
    /\ BotIdle
    /\ now \in NowValues
    /\ pc = "idle"
    /\ caller = "none"
    /\ data = <<>>
    /\ matching_pairs = <<>>
    /\ symbols = <<>>
    /\ idx = 1
    /\ since = 0
    /\ listing = "none"
    /\ fetched = NoFetch
    /\ limit_pairs = -1
    /\ all_symbols = <<>>
    /\ delayed = TRUE
    /\ info = <<>>
    /\ days_to_fetch = 0

\* CryptoTradingStrategy.__init__ followed by a call of
\* fetch_data(limit_pairs) by `who`.
NewStrategy(who, limit) ==
    /\ data' = <<>>
    /\ matching_pairs' = <<>>
    /\ caller' = who
    /\ pc' = "listing"
    /\ symbols' = <<>>
    /\ idx' = 1
    /\ listing' = "none"
    /\ fetched' = NoFetch
    /\ limit_pairs' = limit
    /\ all_symbols' = <<>>
    /\ delayed' = TRUE
    /\ info' = <<>>
    /\ days_to_fetch' = 0
    /\ UNCHANGED <<now, since>>
    /\ UNCHANGED otherVars

\* scheduled_scan: a new strategy, then self.crypto_strategy.fetch_data().
ScheduledScan ==
    /\ pc \in {"idle", "fetched", "done"}
    /\ NewStrategy("scan", -1)

\* __main__: a new strategy, then strategy.filter_pairs_with_signals(),
\* which starts with self.fetch_data().
Main ==
    /\ pc \in {"idle", "fetched", "done"}
    /\ NewStrategy("filter", -1)

\* A bounded run: a new strategy, then fetch_data(limit_pairs=k).
BoundedFetch ==
    /\ pc \in {"idle", "fetched", "done"}
    /\ \E k \in 0..MaxLimit : NewStrategy("direct", k)

\* fetch_data up to its loop: fetch_all_pairs (the exchangeInfo request
\* answers or raises), the cap, and `since`.
FetchAllPairs ==
    /\ pc = "listing"
    /\ \/ \E payload \in ExchangeInfos :
            /\ info' = payload
            /\ all_symbols' = FilterSymbols(payload)
            /\ listing' = "ok"
       \/ /\ info' = <<>>
          /\ all_symbols' = <<>>
          /\ listing' = "error"
    /\ symbols' = LimitPairs(all_symbols', limit_pairs)
    /\ since' = Since(now)
    /\ idx' = 1
    /\ fetched' = NoFetch
    /\ delayed' = TRUE
    /\ pc' = "fetching"
    /\ UNCHANGED <<now, caller, data, matching_pairs, limit_pairs, days_to_fetch>>
    /\ UNCHANGED otherVars

\* One iteration of fetch_data's loop: the klines request for symbols[idx]
\* answers with bars, answers with no bars, or raises; then the delay.
FetchSymbol ==
    /\ pc = "fetching"
    /\ idx <= Len(symbols)
    /\ LET symbol == symbols[idx] IN
       \/ \E market \in Markets :
            LET klines == KlinesAnswers[market][since][now] IN
            /\ Len(klines) > 0
            /\ data' = DictSet(data, symbol, Frames[market][since][now])
            /\ fetched' = [fetched EXCEPT ![symbol] = "ok"]
       \/ /\ fetched' = [fetched EXCEPT ![symbol] = "empty"]
          /\ UNCHANGED data
       \/ /\ fetched' = [fetched EXCEPT ![symbol] = "error"]
          /\ UNCHANGED data
    /\ delayed' = SleepsAfter(fetched'[symbols[idx]])
    /\ idx' = idx + 1
    /\ UNCHANGED <<now, pc, caller, matching_pairs, symbols, since, listing,
                   limit_pairs, all_symbols, info, days_to_fetch>>
    /\ UNCHANGED otherVars

\* fetch_data returns to scheduled_scan, which calls
\* filter_pairs_with_signals, which calls fetch_data again.
ScanCallsFilter ==
    /\ pc = "fetching"
    /\ idx > Len(symbols)
    /\ caller = "scan"
    /\ caller' = "filter"
    /\ pc' = "listing"
    /\ UNCHANGED <<now, data, matching_pairs, symbols, idx, since, listing, fetched,
                   limit_pairs, all_symbols, delayed, info, days_to_fetch>>
    /\ UNCHANGED otherVars

\* fetch_data returns to filter_pairs_with_signals, which evaluates
\* self.data, sorts, stores and returns the matches.
FilterReturns ==
    /\ pc = "fetching"
    /\ idx > Len(symbols)
    /\ caller = "filter"
    /\ matching_pairs' = FilterPairs(data)
    /\ pc' = "done"
    /\ UNCHANGED <<now, caller, data, symbols, idx, since, listing, fetched,
                   limit_pairs, all_symbols, delayed, info, days_to_fetch>>
    /\ UNCHANGED otherVars

\* fetch_data returns len(self.data) to the bounded run that called it.
FetchReturns ==
    /\ pc = "fetching"
    /\ idx > Len(symbols)
    /\ caller = "direct"
    /\ pc' = "fetched"
    /\ UNCHANGED <<now, caller, data, matching_pairs, symbols, idx, since, listing,
                   fetched, limit_pairs, all_symbols, delayed, info, days_to_fetch>>
    /\ UNCHANGED otherVars

Next ==
    \/ ScheduledScan
    \/ Main
    \/ BoundedFetch
    \/ FetchReturns
    \/ FetchAllPairs
    \/ FetchSymbol
    \/ ScanCallsFilter
    \/ FilterReturns

Spec == Init /\ [][Next]_vars

TypeOK ==
    /\ pc \in {"idle", "listing", "fetching", "fetched", "done"}
    /\ caller \in {"none", "scan", "filter", "direct"}
    /\ limit_pairs \in -1..MaxLimit
    /\ listing \in {"none", "ok", "error"}
    /\ idx \in 1..(Len(symbols) + 1)

-----------------------------------------------------------------------------
(* The ccxt variant of CryptoTradingStrategy (src/2_green_filter.py) *)

DefaultDaysToFetch == 3
\* fetch_ohlcv is called without a limit: the exchange's default applies.
OhlcvDefaultLimit == 500

DaysValues == {DefaultDaysToFetch} \cup 28..MaxDaysToFetch

\* Instants at which an execution may start: 00:00 and noon of Today.
NowValuesCcxt == {OneDay * Today, OneDay * Today + 1}

\* fetch_all_pairs: the keys of load_markets() that end with '/USDT'.  A
\* key is BASE/QUOTE, so the test is on the quote asset; the market's
\* status (its `active` flag) is not looked at.
FilterSymbolsCcxt(payload) ==
    LET keep(item) == item.quoteAsset = QuoteCurrency
        kept == SelectSeq(payload, keep)
    IN  [i \in 1..Len(kept) |-> kept[i].symbol]

\* fetch_data: since = now - days_to_fetch days.
SinceCcxt(t, days) == t - days * OneDay

\* fetch_data: the DataFrame of the ccxt variant has a low_point column.
BuildFrameCcxt(ohlcv) ==
    LET df == BuildFrame(ohlcv)
    IN  [i \in 1..Len(df) |-> df[i] @@ [low_point |-> df[i].Low]]

StartTimesCcxt == { SinceCcxt(t, d) : t \in NowValuesCcxt, d \in DaysValues }
OhlcvAnswers ==
    [m \in Markets |-> [st \in StartTimesCcxt |-> [t \in NowValuesCcxt |->
        Klines(m, st, OhlcvDefaultLimit, t)]]]
FramesCcxt ==
    [m \in Markets |-> [st \in StartTimesCcxt |-> [t \in NowValuesCcxt |->
        BuildFrameCcxt(OhlcvAnswers[m][st][t])]]]

InitCcxt ==
    /\ db_module = "src/database.py"
    /\ DbFresh
    /\ BotIdle
    /\ now \in NowValuesCcxt
    /\ pc = "idle"
    /\ caller = "none"
    /\ data = <<>>
    /\ matching_pairs = <<>>
    /\ symbols = <<>>
    /\ idx = 1
    /\ since = 0
    /\ listing = "none"
    /\ fetched = NoFetch
    /\ limit_pairs = -1
    /\ all_symbols = <<>>
    /\ delayed = TRUE
    /\ info = <<>>
    /\ days_to_fetch = DefaultDaysToFetch

\* __main__: CryptoTradingStrategy(days_to_fetch=d), then fetch_data().
MainCcxt ==
    /\ pc \in {"idle", "done"}
    /\ \E d \in DaysValues : days_to_fetch' = d
    /\ data' = <<>>
    /\ matching_pairs' = <<>>
    /\ caller' = "main"
    /\ pc' = "listing"
    /\ symbols' = <<>>
    /\ idx' = 1
    /\ listing' = "none"
    /\ fetched' = NoFetch
    /\ limit_pairs' = -1
    /\ all_symbols' = <<>>
    /\ delayed' = TRUE
    /\ info' = <<>>
    /\ UNCHANGED <<now, since>>
    /\ UNCHANGED otherVars

\* fetch_data up to its loop: fetch_all_pairs (load_markets answers or
\* raises), the cap, and `since`.
FetchAllPairsCcxt ==
    /\ pc = "listing"
    /\ \/ \E payload \in ExchangeInfos :
            /\ info' = payload
            /\ all_symbols' = FilterSymbolsCcxt(payload)
            /\ listing' = "ok"
       \/ /\ info' = <<>>
          /\ all_symbols' = <<>>
          /\ listing' = "error"
    /\ symbols' = LimitPairs(all_symbols', limit_pairs)
    /\ since' = SinceCcxt(now, days_to_fetch)
    /\ idx' = 1
    /\ fetched' = NoFetch
    /\ delayed' = TRUE
    /\ pc' = "fetching"
    /\ UNCHANGED <<now, caller, data, matching_pairs, limit_pairs, days_to_fetch>>
    /\ UNCHANGED otherVars

\* One iteration of fetch_data's loop: fetch_ohlcv for symbols[idx] answers
\* with bars, answers with no bars, or raises; then exchange.sleep(50).
FetchSymbolCcxt ==
    /\ pc = "fetching"
    /\ idx <= Len(symbols)
    /\ LET symbol == symbols[idx] IN
       \/ \E market \in Markets :
            LET ohlcv == OhlcvAnswers[market][since][now] IN
            /\ Len(ohlcv) > 0
            /\ data' = DictSet(data, symbol, FramesCcxt[market][since][now])
            /\ fetched' = [fetched EXCEPT ![symbol] = "ok"]
       \/ /\ fetched' = [fetched EXCEPT ![symbol] = "empty"]
          /\ UNCHANGED data
       \/ /\ fetched' = [fetched EXCEPT ![symbol] = "error"]
          /\ UNCHANGED data
    /\ delayed' = SleepsAfter(fetched'[symbols[idx]])
    /\ idx' = idx + 1
    /\ UNCHANGED <<now, pc, caller, matching_pairs, symbols, since, listing,
                   limit_pairs, all_symbols, info, days_to_fetch>>
    /\ UNCHANGED otherVars

\* fetch_data returns to __main__, which calls filter_pairs_with_signals;
\* in this variant it evaluates self.data without fetching.
FilterCcxt ==
    /\ pc = "fetching"
    /\ idx > Len(symbols)
    /\ matching_pairs' = FilterPairs(data)
    /\ pc' = "done"
    /\ UNCHANGED <<now, caller, data, symbols, idx, since, listing, fetched,
                   limit_pairs, all_symbols, delayed, info, days_to_fetch>>
    /\ UNCHANGED otherVars

NextCcxt ==
    \/ MainCcxt
    \/ FetchAllPairsCcxt
    \/ FetchSymbolCcxt
    \/ FilterCcxt

SpecCcxt == InitCcxt /\ [][NextCcxt]_vars

-----------------------------------------------------------------------------
(* State machine of the subscriber store and of the bot's start-up *)

InitDb ==
    /\ db_module \in Modules
    /\ DbFresh
    /\ BotIdle
    /\ now \in NowValues
    /\ StrategyIdle
    /\ days_to_fetch = 0

\* Database.add_subscriber(chat_id, username).
AddSubscriber ==
    \E c \in ChatIds, name \in Usernames :
        /\ subscribers' = AddSubscriberRows(subscribers, db_module, c, name)
        /\ returned' = [op |-> "add_subscriber", chat_id |-> c,
                        ok |-> AddSubscriberOk(db_module)]
        /\ UNCHANGED <<db_module, setup, jobs>>
        /\ UNCHANGED <<strategyVars, botVars>>

\* Database.remove_subscriber(chat_id).
RemoveSubscriber ==
    \E c \in ChatIds :
        /\ subscribers' = RemoveSubscriberRows(subscribers, c)
        /\ returned' = [op |-> "remove_subscriber", chat_id |-> c, ok |-> TRUE]
        /\ UNCHANGED <<db_module, setup, jobs>>
        /\ UNCHANGED <<strategyVars, botVars>>

\* CryptoSignalBot.__init__: Database() on the existing file, then
\* setup_jobs().
BotStartup ==
    LET r == SetupJobs(GetActiveSubscribers(subscribers)) IN
    /\ setup' = r.outcome
    /\ jobs' = r.jobs
    /\ returned' = [op |-> "setup_jobs", chat_id |-> 0, ok |-> r.outcome = "done"]
    /\ UNCHANGED <<db_module, subscribers>>
    /\ UNCHANGED <<strategyVars, botVars>>

NextDb ==
    \/ AddSubscriber
    \/ RemoveSubscriber
    \/ BotStartup

SpecDb == InitDb /\ [][NextDb]_vars

-----------------------------------------------------------------------------
(* State machine of two scheduled_scan jobs; a step runs from one await to *)
(* the next, where the event loop may switch to the other job              *)

\* The send at `site` of job j raised e.
Raises(j, site, e) ==
    /\ failures' = [failures EXCEPT ![j] = @ \cup {site}]
    /\ log' = [log EXCEPT ![j] = IF Logs(site) THEN @ \cup {site} ELSE @]
    /\ jpc' = [jpc EXCEPT ![j] = Catch(site, e)]

\* The job queue calls scheduled_scan: it reads the job's data and awaits
\* the send of "Running scheduled scan".
StartScan(j) ==
    /\ jpc[j] \in {"idle", "end"}
    /\ \E d \in ScanDaysValues :
          job_data' = [job_data EXCEPT ![j] = [chat_id |-> j, scan_days |-> d]]
    /\ jpc' = [jpc EXCEPT ![j] = "announce"]
    /\ used' = [used EXCEPT ![j] = 0]
    /\ job_since' = [job_since EXCEPT ![j] = 0]
    /\ result' = [result EXCEPT ![j] = <<>>]
    /\ message' = [message EXCEPT ![j] = NoMessage]
    /\ notified' = [notified EXCEPT ![j] = FALSE]
    /\ delivered' = [delivered EXCEPT ![j] = {}]
    /\ failures' = [failures EXCEPT ![j] = {}]
    /\ log' = [log EXCEPT ![j] = {}]
    /\ UNCHANGED crypto_strategy
    /\ UNCHANGED <<strategyVars, dbVars>>

\* The first send returns: self.crypto_strategy = CryptoTradingStrategy(),
\* then the send of "Fetching market data" is awaited.
Announced(j) ==
    /\ jpc[j] = "announce"
    /\ \/ /\ crypto_strategy' = j
          /\ delivered' = [delivered EXCEPT ![j] = @ \cup {"announce"}]
          /\ jpc' = [jpc EXCEPT ![j] = "fetching"]
          /\ UNCHANGED <<failures, log>>
       \/ /\ \E e \in Exceptions : Raises(j, "announce", e)
          /\ UNCHANGED <<crypto_strategy, delivered>>
    /\ UNCHANGED <<job_data, used, job_since, result, message, notified>>
    /\ UNCHANGED <<strategyVars, dbVars>>

\* The second send returns: self.crypto_strategy.fetch_data() and
\* self.crypto_strategy.filter_pairs_with_signals() run without an await,
\* the message is built and its send awaited.
Fetched(j) ==
    /\ jpc[j] = "fetching"
    /\ \/ /\ used' = [used EXCEPT ![j] = crypto_strategy]
          /\ job_since' = [job_since EXCEPT ![j] = Since(now)]
          /\ \E n \in 0..MaxMatches :
                /\ result' = [result EXCEPT ![j] = RankedList(n)]
                /\ message' = [message EXCEPT ![j] =
                                 IF n > 0 THEN BuildMessage(RankedList(n)) ELSE NoMessage]
                /\ jpc' = [jpc EXCEPT ![j] = IF n > 0 THEN "results" ELSE "nomatch"]
          /\ delivered' = [delivered EXCEPT ![j] = @ \cup {"fetching"}]
          /\ UNCHANGED <<failures, log>>
       \/ /\ \E e \in Exceptions : Raises(j, "fetching", e)
          /\ UNCHANGED <<used, job_since, result, message, delivered>>
    /\ UNCHANGED <<crypto_strategy, job_data, notified>>
    /\ UNCHANGED <<strategyVars, dbVars>>

\* The send of the results message returns:
\* self.db.update_last_notification(chat_id).
ResultsSent(j) ==
    /\ jpc[j] = "results"
    /\ \/ /\ delivered' = [delivered EXCEPT ![j] = @ \cup {"results"}]
          /\ notified' = [notified EXCEPT ![j] = TRUE]
          /\ jpc' = [jpc EXCEPT ![j] = "end"]
          /\ UNCHANGED <<failures, log>>
       \/ /\ \E e \in Exceptions : Raises(j, "results", e)
          /\ UNCHANGED <<delivered, notified>>
    /\ UNCHANGED <<crypto_strategy, job_data, used, job_since, result, message>>
    /\ UNCHANGED <<strategyVars, dbVars>>

\* The send of "No matching pairs found" returns.
NoMatchSent(j) ==
    /\ jpc[j] = "nomatch"
    /\ \/ /\ delivered' = [delivered EXCEPT ![j] = @ \cup {"nomatch"}]
          /\ jpc' = [jpc EXCEPT ![j] = "end"]
          /\ UNCHANGED <<failures, log>>
       \/ /\ \E e \in Exceptions : Raises(j, "nomatch", e)
          /\ UNCHANGED delivered
    /\ UNCHANGED <<crypto_strategy, job_data, used, job_since, result, message,
                   notified>>
    /\ UNCHANGED <<strategyVars, dbVars>>

\* The send of the error report, in the `except Exception` clause, returns.
ReportSent(j) ==
    /\ jpc[j] = "report"
    /\ \/ /\ delivered' = [delivered EXCEPT ![j] = @ \cup {"report"}]
          /\ jpc' = [jpc EXCEPT ![j] = "end"]
          /\ UNCHANGED <<failures, log>>
       \/ /\ \E e \in Exceptions : Raises(j, "report", e)
          /\ UNCHANGED delivered
    /\ UNCHANGED <<crypto_strategy, job_data, used, job_since, result, message,
                   notified>>
    /\ UNCHANGED <<strategyVars, dbVars>>

InitBot ==
    /\ db_module = "src/database.py"
    /\ DbFresh
    /\ BotIdle
    /\ now \in NowValues
    /\ StrategyIdle
    /\ days_to_fetch = 0

NextBot ==
    \E j \in Jobs :
        \/ StartScan(j)
        \/ Announced(j)
        \/ Fetched(j)
        \/ ResultsSent(j)
        \/ NoMatchSent(j)
        \/ ReportSent(j)

SpecBot == InitBot /\ [][NextBot]_vars

-----------------------------------------------------------------------------
(* Properties *)

HasMatch(symbol) == \E k \in 1..Len(matching_pairs) : matching_pairs[k].symbol = symbol

\* Position of a symbol in self.data (0 when it has no entry).
PosInData(symbol) ==
    IF HasKey(data, symbol) THEN CHOOSE i \in 1..Len(data) : data[i].symbol = symbol ELSE 0

Returned == pc = "done"

\* C1: when filter_pairs_with_signals has returned, a symbol whose series has
\* at least 30 candles and a defined MA28 at the last index has a match if
\* and only if close > open strictly on both of the last two candles and
\* the last close is strictly above the last MA28.
C1_MatchIffEntry ==
    Returned =>
        \A i \in 1..Len(data) :
            LET df == data[i].df
                n  == Len(df)
            IN  (n >= 30 /\ ~df[n].MA28.nan) =>
                    (HasMatch(data[i].symbol) <=>
                        /\ df[n].Close > df[n].Open
                        /\ df[n - 1].Close > df[n - 1].Open
                        /\ 28 * df[n].Close > df[n].MA28.sum)

\* C1 witness: a returned scan with a matching series, a series whose last
\* candle has close = open, one whose second-last has close = open and
\* one whose last close equals MA28, all of at least 30 candles.
C1_Witness ==
    /\ Returned
    /\ \E i, j, k \in 1..Len(data) :
        LET a == data[i].df
            b == data[j].df
            c == data[k].df
        IN  /\ Len(a) >= 30 /\ HasMatch(data[i].symbol)
            /\ Len(b) >= 30 /\ ~HasMatch(data[j].symbol)
            /\ \/ b[Len(b)].Close = b[Len(b)].Open
               \/ b[Len(b) - 1].Close = b[Len(b) - 1].Open
            /\ Len(c) >= 30 /\ ~HasMatch(data[k].symbol)
            /\ 28 * c[Len(c)].Close = c[Len(c)].MA28.sum

\* C2: when filter_pairs_with_signals has returned, no symbol whose series
\* has fewer than 30 candles has a match.
C2_ShortSeriesNoMatch ==
    Returned =>
        \A i \in 1..Len(data) :
            Len(data[i].df) < 30 => ~HasMatch(data[i].symbol)

\* C2 witness: a returned scan that evaluated a series of 28 and one of 29
\* candles, each with MA28 defined at the last index, two green last
\* candles and the last close above MA28.
C2_Witness ==
    /\ Returned
    /\ \A len \in {28, 29} : \E i \in 1..Len(data) :
        LET df == data[i].df
            n  == Len(df)
        IN  /\ n = len
            /\ ~df[n].MA28.nan
            /\ df[n].Close > df[n].Open
            /\ df[n - 1].Close > df[n - 1].Open
            /\ 28 * df[n].Close > df[n].MA28.sum

\* C3: every emitted match has stop_loss = min of the last two lows,
\* risk_pct = (close / stop_loss - 1) * 100 (the IEEE infinity when stop_loss
\* is 0) and carries close, MA28 and volume of the last candle; with close
\* 105 and lows 98, 99 the stop is 98 and the risk is 7.14 to two decimals.
C3_MatchFields ==
    \A k \in 1..Len(matching_pairs) :
        LET m  == matching_pairs[k]
            df == data[PosInData(m.symbol)].df
            n  == Len(df)
            lo == df[n].Low
            lp == df[n - 1].Low
        IN  /\ PosInData(m.symbol) > 0
            /\ m.stop_loss \in {lo, lp} /\ m.stop_loss <= lo /\ m.stop_loss <= lp
            /\ m.last_close = df[n].Close
            /\ m.ma28 = df[n].MA28
            /\ m.volume = df[n].Volume
            /\ (m.stop_loss > 0 =>
                   /\ m.risk_pct.kind = "num"
                   /\ m.risk_pct.den > 0
                   /\ m.risk_pct.num * m.stop_loss =
                          100 * (m.last_close - m.stop_loss) * m.risk_pct.den)
            /\ ((m.stop_loss = 0 /\ m.last_close > 0) => m.risk_pct.kind = "inf")
            /\ ((df[n].Close = 105 /\ lp = 98 /\ lo = 99) =>
                   /\ m.stop_loss = 98
                   /\ 714 * m.risk_pct.den <= 100 * m.risk_pct.num
                   /\ 100 * m.risk_pct.num < 715 * m.risk_pct.den)

\* C3 witness: the spec's example is emitted (close 105, MA28 100, lows 98
\* and 99, volume 500000).
C3_Witness ==
    \E k \in 1..Len(matching_pairs) :
        LET m == matching_pairs[k] IN
        /\ m.last_close = 105
        /\ m.ma28.sum = 2800
        /\ m.stop_loss = 98
        /\ m.volume = 500000

\* C4: when filter_pairs_with_signals has returned, a symbol whose entry
\* conditions hold but whose stop-loss min(low[n-1], low[n-2]) is 0 has no
\* match in the result.
C4_ZeroStopDropped ==
    Returned =>
        \A i \in 1..Len(data) :
            LET df == data[i].df
                n  == Len(df)
            IN  (/\ n >= 30
                 /\ df[n].Close > df[n].Open
                 /\ df[n - 1].Close > df[n - 1].Open
                 /\ 28 * df[n].Close > df[n].MA28.sum
                 /\ (df[n].Low = 0 \/ df[n - 1].Low = 0))
                => ~HasMatch(data[i].symbol)

\* C5: when a scan over A, B, C has returned in which the candle request
\* for B raised or answered with no candles while those for A and C
\* succeeded, the result has no entry for B.
C5_FailedSymbolExcluded ==
    (/\ Returned
     /\ fetched["A"] = "ok"
     /\ fetched["B"] \in {"error", "empty"}
     /\ fetched["C"] = "ok")
    => ~HasMatch("B")

\* C6: a scan whose symbol-listing request failed does not return a result
\* to its caller.
C6_ListingFailureFails ==
    listing = "error" => ~Returned

\* C7: in the returned list, volume is non-increasing.
C7_VolumeDescending ==
    \A k \in 1..(Len(matching_pairs) - 1) :
        matching_pairs[k].volume >= matching_pairs[k + 1].volume

\* C7 witness: three matches were returned whose encounter order was not
\* already descending: the entry met first in self.data is ranked last.
C7_Witness ==
    /\ Returned
    /\ Len(matching_pairs) = 3
    /\ matching_pairs[1].volume > matching_pairs[3].volume
    /\ PosInData(matching_pairs[3].symbol) = 1

\* C8: two matches of equal volume appear in the returned list in the
\* order in which their symbols appear in self.data.
C8_StableRanking ==
    \A k, l \in 1..Len(matching_pairs) :
        (k < l /\ matching_pairs[k].volume = matching_pairs[l].volume)
        => PosInData(matching_pairs[k].symbol) < PosInData(matching_pairs[l].symbol)

\* C8 witness: two matches of equal volume were returned behind a match of
\* larger volume that was met after both of them, and the insertion order
\* of self.data differs from the listing order.
C8_Witness ==
    /\ Returned
    /\ Len(matching_pairs) = 3
    /\ matching_pairs[2].volume = matching_pairs[3].volume
    /\ matching_pairs[1].volume > matching_pairs[2].volume
    /\ PosInData(matching_pairs[1].symbol) = 3
    /\ Len(symbols) = 3
    /\ data[1].symbol # symbols[1]

\* C9: every entry of a returned result is for a symbol whose candles were
\* fetched successfully by the fetch_data run of that
\* filter_pairs_with_signals call.
C9_ResultFromThisRun ==
    Returned =>
        \A k \in 1..Len(matching_pairs) : fetched[matching_pairs[k].symbol] = "ok"

\* C10: the last candle of every fetched series is yesterday's bar, which
\* has closed by now; it is never the bar of the current day.
C10_LastBarClosed ==
    \A i \in 1..Len(data) :
        LET df == data[i].df IN
        /\ df[Len(df)].timestamp + OneDay <= now
        /\ df[Len(df)].timestamp = OneDay * (CurrentDay(now) - 1)

\* Symbols for which this fetch_data run has sent a klines request.
Requested == { s \in AllSymbols : fetched[s] # "none" }

\* C12: in a fetch_data run called with limit_pairs = k >= 0, candles are
\* requested for at most k symbols, all among the first k of the listing.
C12_AtMostLimitPairs ==
    (caller = "direct" /\ pc \in {"fetching", "fetched"} /\ limit_pairs >= 0) =>
        /\ Cardinality(Requested) <= limit_pairs
        /\ \A s \in Requested :
              \E i \in 1..Len(all_symbols) : i <= limit_pairs /\ all_symbols[i] = s

\* C13: a klines request is sent only when the 50 ms delay has run since
\* the previous klines request of the same fetch_data run, whatever the
\* outcome of that request was.
C13_DelayBetweenRequests ==
    [][(\E s \in AllSymbols : fetched[s] = "none" /\ fetched'[s] # "none") => delayed]_vars

\* C13 witness: a fetch_data run in which a request that raised, one that
\* answered with no candles and one that succeeded have been sent, each
\* followed by the delay.
C13_Witness ==
    /\ pc = "fetching"
    /\ idx > Len(symbols)
    /\ delayed
    /\ \A o \in {"ok", "empty", "error"} : \E s \in AllSymbols : fetched[s] = o

\* A symbol the payload of the listing request marks as a tradable pair of
\* the quote currency.
Tradable(s) ==
    \E i \in 1..Len(info) :
        /\ info[i].symbol = s
        /\ info[i].quoteAsset = "USDT"
        /\ info[i].status = "TRADING"

\* C11: the list fetch_all_pairs returns holds exactly the symbols of the
\* listing whose quote asset is the quote currency and whose status is
\* tradable, in listing order, and no other symbol is requested from the
\* exchange (a symbol is evaluated only after it was requested).
C11_OnlyTradableQuotePairs ==
    pc \in {"fetching", "fetched", "done"} =>
        /\ \A i \in 1..Len(all_symbols) : Tradable(all_symbols[i])
        /\ \A s \in AllSymbols : Tradable(s) => \E i \in 1..Len(all_symbols) : all_symbols[i] = s
        /\ \A i, j \in 1..Len(all_symbols) :
              i < j => \E k, l \in 1..Len(info) :
                          k < l /\ info[k].symbol = all_symbols[i] /\ info[l].symbol = all_symbols[j]
        /\ \A s \in Requested : Tradable(s)

\* C20: in the ccxt variant, when days_to_fetch is below 29 and every
\* fetched series has at most days_to_fetch + 1 candles,
\* filter_pairs_with_signals returns the empty list.
C20_ShortWindowNoMatch ==
    (/\ Returned
     /\ days_to_fetch < 29
     /\ \A i \in 1..Len(data) : Len(data[i].df) <= days_to_fetch + 1)
    => matching_pairs = <<>>

\* C20 witness: filter_pairs_with_signals has returned with days_to_fetch
\* below 29 on a series of days_to_fetch + 1 candles that has a defined
\* MA28, two green last candles and a last close above MA28.
C20_Witness ==
    /\ Returned
    /\ days_to_fetch < 29
    /\ \E i \in 1..Len(data) :
        LET df == data[i].df
            n  == Len(df)
        IN  /\ n = days_to_fetch + 1
            /\ ~df[n].MA28.nan
            /\ df[n].Close > df[n].Open
            /\ df[n - 1].Close > df[n - 1].Open
            /\ 28 * df[n].Close > df[n].MA28.sum

\* With days_to_fetch = 29 a match is possible: the bound of C20 is tight.
C20_MatchAt29 == Returned /\ days_to_fetch = 29 /\ matching_pairs # <<>>

\* The chat ids get_active_subscribers lists.
Listed ==
    LET rows == GetActiveSubscribers(subscribers)
    IN  { rows[i][1] : i \in 1..Len(rows) }

\* C14: at start-up setup_jobs completes, whatever the active subscribers
\* in the store, and the jobs it registered are for active subscribers, at
\* most one per chat id.
C14_SetupJobsRegisters ==
    returned.op = "setup_jobs" =>
        /\ setup = "done"
        /\ \A i \in 1..Len(jobs) : jobs[i].chat_id \in Listed
        /\ \A i, k \in 1..Len(jobs) : jobs[i].chat_id = jobs[k].chat_id => i = k

\* setup_jobs does complete when the store lists no active subscriber.
SetupJobsOnEmpty == returned.op = "setup_jobs" /\ Listed = {} /\ setup = "done"

\* The scan of job j has run fetch_data.
HasFetched(j) == used[j] # 0

\* C15: two scheduled scans whose job data differ in scan_days request
\* different start times from the exchange.
C15_WindowFollowsScanDays ==
    \A j, k \in Jobs :
        (HasFetched(j) /\ HasFetched(k) /\ job_data[j].scan_days # job_data[k].scan_days)
            => job_since[j] # job_since[k]

\* C16: after add_subscriber(c, name) the call has reported success and c
\* is listed by get_active_subscribers; after remove_subscriber(c) c is not
\* listed; no chat id is listed twice.
C16_SubscribeRoundTrip ==
    /\ returned.op = "add_subscriber" => (returned.ok /\ returned.chat_id \in Listed)
    /\ returned.op = "remove_subscriber" => returned.chat_id \notin Listed
    /\ LET rows == GetActiveSubscribers(subscribers)
       IN  \A i, k \in 1..Len(rows) : rows[i][1] = rows[k][1] => i = k

\* The round trip of C16 holds with the store of src/database.py.
RoundTripInRootModule == db_module = "src/database.py" => C16_SubscribeRoundTrip

\* A removed subscriber was added again and is listed.
RoundTripReached ==
    /\ returned.op = "add_subscriber"
    /\ returned.chat_id \in Listed
    /\ \E i \in 1..Len(subscribers) : ~subscribers[i].is_active

\* C17: in scheduled_scan every failed send is caught and logged, no
\* exception escapes, update_last_notification is not called in a scan with
\* a failed send, and it is called only after the results message was sent.
C17_SendFailureHandled ==
    \A j \in Jobs :
        /\ failures[j] \subseteq log[j]
        /\ jpc[j] # "raised"
        /\ failures[j] # {} => ~notified[j]
        /\ notified[j] => "results" \in delivered[j]

\* What does hold: the failures of the sends in the try body are logged, no
\* exception escapes, and the notification is recorded only after the
\* results message was sent, in a scan without a failed send.
TryBodyFailuresHandled ==
    \A j \in Jobs :
        /\ (failures[j] \ {"report"}) \subseteq log[j]
        /\ jpc[j] # "raised"
        /\ failures[j] # {} => ~notified[j]
        /\ notified[j] => "results" \in delivered[j]

\* C18: each job runs fetch_data and filter_pairs_with_signals on the
\* strategy instance it created itself.
C18_OwnStrategyInstance ==
    \A j \in Jobs : HasFetched(j) => used[j] = j

\* C19: the results message for n > 0 matches lists the first min(n, 10)
\* entries of the ranked list, numbered from 1 in rank order, states the
\* total n, and has the remainder line, with n - 10, iff n > 10.
C19_ResultsMessage ==
    \A j \in Jobs :
        Len(result[j]) > 0 =>
            LET n == Len(result[j])
                m == message[j]
            IN  /\ m.total = n
                /\ Len(m.entries) = Min(n, 10)
                /\ \A i \in 1..Len(m.entries) :
                      m.entries[i].number = i /\ m.entries[i].pair = result[j][i]
                /\ (m.more # <<>>) <=> (n > 10)
                /\ n > 10 => m.more = <<n - 10>>

\* C19 witness: a results message for more than 10 matches was sent, and
\* the other job's scan holds one for exactly 10.
C19_Witness ==
    \E j, k \in Jobs :
        /\ Len(result[j]) > 10 /\ "results" \in delivered[j]
        /\ Len(result[k]) = 10 /\ jpc[k] = "results"

====
